---- MODULE Spec2Model ----
(***************************************************************************)
(* Model of the notebook tutorials/statisticalEstimates/_0.ipynb.          *)
(*                                                                         *)
(* The program is the sequence of code cells of the notebook, run in an    *)
(* IPython kernel.  The state is the kernel: its global namespace (the     *)
(* names bound so far and their values), its execution counter, the        *)
(* outcome of the last cell, and numpy's global random generator.  Every   *)
(* code cell is one action.  A cell that raises stops at the statement     *)
(* that raised and keeps the effects of the statements before it.          *)
(*                                                                         *)
(* Three library calls carry the behaviour: np.random.randint, the         *)
(* DataFrame column assignment .loc[:, col] = value, and pd.concat.        *)
(***************************************************************************)
EXTENDS Integers, Sequences, FiniteSets, TLC

VARIABLES
    ns,               \* the kernel's global namespace: bound name -> value
    execution_count,  \* the kernel's execution counter (the n of In [n])
    out,              \* the cell run last and how it ended
    rng_calls,        \* calls made so far on numpy's global generator
    draw              \* one element returned by a firm-size randint call

vars == <<ns, execution_count, out, rng_calls, draw>>

(***************************************************************************)
(* Bounds of the model.                                                    *)
(***************************************************************************)
\* rows per cohort table: num_samples, scaled down from the notebook's 1000
NumSamples == 2
\* cells a user runs in one interactive session
MaxExec == 8
\* longest cohort table handed to the concatenation on its own
MaxRows == 2

(***************************************************************************)
(* Values held in a dataframe.                                             *)
(***************************************************************************)
NaN == <<"nan">>
Num(v) == <<"num", v>>
Str(s) == <<"str", s>>
\* a z-score drawn from the multivariate normal; its value is not tracked
Z == <<"z">>

Range(s) == {s[i] : i \in 1..Len(s)}

Pos(s, x) == CHOOSE j \in 1..Len(s) : s[j] = x

RECURSIVE Flatten(_)
Flatten(ss) == IF ss = <<>> THEN <<>> ELSE Head(ss) \o Flatten(Tail(ss))

Broadcast(v, n) == [i \in 1..n |-> v]

(***************************************************************************)
(* numpy.                                                                  *)
(***************************************************************************)
\* np.repeat(0, 4)
repeat(v, n) == [i \in 1..n |-> v]

\* np.random.multivariate_normal(mean, cov, size): size vectors, one
\* variate per entry of mean
multivariate_normal(mean, cov, size) ==
    [i \in 1..size |-> [j \in 1..Len(mean) |-> Z]]

\* np.random.randint(low, high): the integers the call can return, low
\* inclusive and high exclusive
randint_closed(low, high) == low..high
randint(low, high) == low..(high - 1)

\* the least and the greatest member of a set of integers: the members of
\* the support that the cells' draws enumerate
Extremes(S) == {v \in S : (v - 1) \notin S \/ (v + 1) \notin S}

(***************************************************************************)
(* pandas.  A dataframe has an ordered list of columns, one index label    *)
(* per row and one row (column -> value) per index label.                  *)
(***************************************************************************)
\* pd.DataFrame(data, columns=columns): default RangeIndex 0..n-1
DataFrame(data, columns) ==
    [columns |-> columns,
     index   |-> [i \in 1..Len(data) |-> i - 1],
     data    |-> [i \in 1..Len(data) |->
                    [c \in Range(columns) |-> data[i][Pos(columns, c)]]]]

\* frame.loc[:, col] = values: overwrite the column, or add it at the end
loc_set(frame, col, values) ==
    [columns |-> IF col \in Range(frame.columns) THEN frame.columns
                 ELSE Append(frame.columns, col),
     index   |-> frame.index,
     data    |-> [i \in 1..Len(frame.data) |->
                    [c \in Range(frame.columns) \cup {col} |->
                        IF c = col THEN values[i] ELSE frame.data[i][c]]]]

RECURSIVE union_columns(_, _)
union_columns(acc, cols) ==
    IF cols = <<>> THEN acc
    ELSE union_columns(IF Head(cols) \in Range(acc) THEN acc
                       ELSE Append(acc, Head(cols)),
                       Tail(cols))

\* the row of a frame widened to the given columns, NaN where it has none
reindex_row(row, columns) ==
    [c \in Range(columns) |-> IF c \in DOMAIN row THEN row[c] ELSE NaN]

\* pd.concat(objs, axis=0) with join='inner': only the shared columns
pd_concat_inner(objs) ==
    LET all    == union_columns(<<>>, Flatten([k \in 1..Len(objs) |-> objs[k].columns]))
        shared == SelectSeq(all, LAMBDA c : \A k \in 1..Len(objs) : c \in Range(objs[k].columns))
    IN  [columns |-> shared,
         index   |-> Flatten([k \in 1..Len(objs) |-> objs[k].index]),
         data    |-> Flatten([k \in 1..Len(objs) |->
                        [i \in 1..Len(objs[k].data) |->
                            [c \in Range(shared) |-> objs[k].data[i][c]]]])]

\* pd.concat followed by dropping the rows whose index label was seen before
pd_concat_dedup(objs) ==
    LET index == Flatten([k \in 1..Len(objs) |-> objs[k].index])
        cols  == union_columns(<<>>, Flatten([k \in 1..Len(objs) |-> objs[k].columns]))
        rows  == Flatten([k \in 1..Len(objs) |->
                    [i \in 1..Len(objs[k].data) |-> reindex_row(objs[k].data[i], cols)]])
        keep  == {p \in 1..Len(index) : \A q \in 1..(p - 1) : index[q] # index[p]}
        nth(j) == CHOOSE p \in keep : Cardinality({q \in keep : q < p}) = j - 1
    IN  [columns |-> cols,
         index   |-> [j \in 1..Cardinality(keep) |-> index[nth(j)]],
         data    |-> [j \in 1..Cardinality(keep) |-> rows[nth(j)]]]

\* pd.concat followed by a stable sort on the index label
pd_concat_sorted(objs) ==
    LET index == Flatten([k \in 1..Len(objs) |-> objs[k].index])
        cols  == union_columns(<<>>, Flatten([k \in 1..Len(objs) |-> objs[k].columns]))
        rows  == Flatten([k \in 1..Len(objs) |->
                    [i \in 1..Len(objs[k].data) |-> reindex_row(objs[k].data[i], cols)]])
        before(p, q) == index[p] < index[q] \/ (index[p] = index[q] /\ p < q)
        nth(j) == CHOOSE p \in 1..Len(index) :
                      Cardinality({q \in 1..Len(index) : before(q, p)}) = j - 1
    IN  [columns |-> cols,
         index   |-> [j \in 1..Len(index) |-> index[nth(j)]],
         data    |-> [j \in 1..Len(index) |-> rows[nth(j)]]]

\* pd.concat(objs, axis=0): join='outer' and ignore_index=False by default.
\* The columns are the union of the inputs' columns in order of first
\* appearance, the rows and their index labels follow input order, and a row
\* holds NaN in every column its own frame lacks.
pd_concat(objs) ==
    LET cols == union_columns(<<>>, Flatten([k \in 1..Len(objs) |-> objs[k].columns]))
    IN  [columns |-> cols,
         index   |-> Flatten([k \in 1..Len(objs) |-> objs[k].index]),
         data    |-> Flatten([k \in 1..Len(objs) |->
                        [i \in 1..Len(objs[k].data) |->
                            reindex_row(objs[k].data[i], cols)]])]

(***************************************************************************)
(* The notebook.                                                           *)
(***************************************************************************)
\* the code cells, named by the heading above each, in document order
DocOrder ==
    <<"Libraries", "Viz options", "Data simulation", "Micro firms",
      "Small firms", "Medium firms", "Large firms", "Very large firms",
      "Data preparation">>

CohortCells ==
    {"Micro firms", "Small firms", "Medium firms", "Large firms",
     "Very large firms"}

\* the names the import cell binds
Modules == {"os", "np", "plt", "rc", "sm", "smf", "pd"}

\* the list handed to pd.concat
TableNames == <<"df_1_5", "df_6_25", "df_26_100", "df_101_500", "df_501_">>

\* the covariance matrix of a cohort cell, in hundredths; rho is the entry
\* for job satisfaction and intent to quit
CovMatrix(rho) ==
    << <<100, rho,  -3,  11>>,
       <<rho, 100,  -5,  -9>>,
       << -3,  -5, 100,   5>>,
       << 11,  -9,   5, 100>> >>

\* What each cohort cell's statements name: the matrix entry, the variable
\* the new dataframe is bound to, the cohort label written to it, the
\* variable whose firm_size column is assigned, and the randint arguments.
CellArgs ==
    ("Micro firms" :>
        [rho |-> -40, frame |-> "df_1_5", cohort |-> "micro",
         fs_frame |-> "df_1_5", low |-> 1, high |-> 5]) @@
    ("Small firms" :>
        [rho |-> -30, frame |-> "df_6_25", cohort |-> "large",
         fs_frame |-> "df_6_25", low |-> 6, high |-> 25]) @@
    ("Medium firms" :>
        [rho |-> -25, frame |-> "df_26_100", cohort |-> "medium",
         fs_frame |-> "df_26_100", low |-> 26, high |-> 100]) @@
    ("Large firms" :>
        [rho |-> -20, frame |-> "df_101_500", cohort |-> "large",
         fs_frame |-> "df_501_", low |-> 101, high |-> 500]) @@
    ("Very large firms" :>
        [rho |-> -15, frame |-> "df_501_", cohort |-> "very large",
         fs_frame |-> "df_501_", low |-> 501, high |-> 2000])

(***************************************************************************)
(* Running a cell.  A run threads a record k = [ns, rng_calls, status]     *)
(* through the cell's statements.                                          *)
(***************************************************************************)
Kernel == [ns |-> ns, rng_calls |-> rng_calls, status |-> "ok"]

Bound(k, name) == name \in DOMAIN k.ns

\* name = value
Bind(k, name, value) ==
    [k EXCEPT !.ns = [m \in DOMAIN k.ns \cup {name} |->
                         IF m = name THEN value ELSE k.ns[m]]]

\* the statement raised: the cell stops here
Raise(k, error) == [k EXCEPT !.status = error]

\* one call of an np.random function: the global generator moves on
Advance(k) == [k EXCEPT !.rng_calls = @ + 1]

\* the kernel after the cell has run
Execute(cell, k) ==
    /\ ns' = k.ns
    /\ rng_calls' = k.rng_calls
    /\ execution_count' = execution_count + 1
    /\ out' = [cell |-> cell, status |-> k.status]
    /\ UNCHANGED draw

\* import os, numpy as np, ...
Libraries ==
    Execute("Libraries",
            [Kernel EXCEPT !.ns = [m \in DOMAIN ns \cup Modules |->
                                      IF m \in Modules THEN "module" ELSE ns[m]]])

\* rc('font', ...); rc('text', usetex=True)
VizOptions ==
    Execute("Viz options",
            IF Bound(Kernel, "rc") THEN Kernel ELSE Raise(Kernel, "NameError"))

\* num_samples = 1000; mu = np.repeat(0, 4); names = [...]
DataSimulation ==
    LET k1 == Bind(Kernel, "num_samples", NumSamples)
    IN  Execute("Data simulation",
            IF ~Bound(k1, "np") THEN Raise(k1, "NameError")
            ELSE Bind(Bind(k1, "mu", repeat(0, 4)),
                      "names", <<"job_sat", "int_qui", "age", "org_tnr">>))

\* A cohort cell, given the array its randint call returns.
\*   r = np.array([...])
\*   <frame> = pd.DataFrame(np.random.multivariate_normal(mu, r,
\*                              size=num_samples), columns=names)
\*   <frame>.loc[:, 'cohort'] = <cohort>
\*   <fs_frame>.loc[:, 'firm_size'] = np.random.randint(low=, high=,
\*                                                      size=num_samples)
\* The right-hand side of an assignment is evaluated before its target.
RunCohortCell(cell, k, sizes) ==
    LET a == CellArgs[cell]
    IN
    IF ~Bound(k, "np") THEN Raise(k, "NameError")
    ELSE
    LET k1 == Bind(k, "r", CovMatrix(a.rho))
    IN
    IF ~(Bound(k1, "pd") /\ Bound(k1, "mu") /\ Bound(k1, "num_samples"))
    THEN Raise(k1, "NameError")
    ELSE
    LET k2 == Advance(k1)
        sample == multivariate_normal(k1.ns["mu"], k1.ns["r"], k1.ns["num_samples"])
    IN
    IF ~Bound(k2, "names") THEN Raise(k2, "NameError")
    ELSE
    LET k3 == Bind(k2, a.frame, DataFrame(sample, k2.ns["names"]))
        k4 == Bind(k3, a.frame,
                   loc_set(k3.ns[a.frame], "cohort",
                           Broadcast(Str(a.cohort), Len(k3.ns[a.frame].data))))
        k5 == Advance(k4)
    IN
    IF ~Bound(k5, a.fs_frame) THEN Raise(k5, "NameError")
    ELSE IF Len(sizes) # Len(k5.ns[a.fs_frame].data) THEN Raise(k5, "ValueError")
    ELSE Bind(k5, a.fs_frame,
              loc_set(k5.ns[a.fs_frame], "firm_size",
                      [i \in 1..Len(sizes) |-> Num(sizes[i])]))

\* the arrays the cell's randint call can return in the current kernel
FirmSizeArrays(cell) ==
    LET a == CellArgs[cell]
        size == IF "num_samples" \in DOMAIN ns THEN ns["num_samples"] ELSE 0
    IN  [1..size -> Extremes(randint(a.low, a.high))]

CohortCell(cell) ==
    \E sizes \in FirmSizeArrays(cell) :
        Execute(cell, RunCohortCell(cell, Kernel, sizes))

MicroFirms == CohortCell("Micro firms")

SmallFirms == CohortCell("Small firms")

MediumFirms == CohortCell("Medium firms")

LargeFirms == CohortCell("Large firms")

VeryLargeFirms == CohortCell("Very large firms")

\* df = pd.concat([df_1_5, df_6_25, df_26_100, df_101_500, df_501_], axis=0)
\* df.info(); df.head()
DataPreparation ==
    Execute("Data preparation",
            IF ~Bound(Kernel, "pd") \/ \E t \in Range(TableNames) : ~Bound(Kernel, t)
            THEN Raise(Kernel, "NameError")
            ELSE Bind(Kernel, "df",
                      pd_concat([j \in 1..Len(TableNames) |-> ns[TableNames[j]]])))

(***************************************************************************)
(* Spec: a fresh kernel in which the user runs cells in any order.         *)
(***************************************************************************)
NoDraw == [cell |-> "none", value |-> 0]

Init ==
    /\ ns = <<>>
    /\ execution_count = 0
    /\ out = [cell |-> "none", status |-> "ok"]
    /\ rng_calls = 0
    /\ draw = NoDraw

\* the session goes on: the user has run fewer than MaxExec cells
InSession == execution_count < MaxExec

Next ==
    \/ InSession /\ Libraries
    \/ InSession /\ VizOptions
    \/ InSession /\ DataSimulation
    \/ InSession /\ MicroFirms
    \/ InSession /\ SmallFirms
    \/ InSession /\ MediumFirms
    \/ InSession /\ LargeFirms
    \/ InSession /\ VeryLargeFirms
    \/ InSession /\ DataPreparation

Spec == Init /\ [][Next]_vars

(***************************************************************************)
(* SpecRunAll: a fresh kernel in which every code cell is run once, in     *)
(* document order, the next cell being run whether or not the last raised. *)
(***************************************************************************)
InOrder(cell) ==
    /\ execution_count < Len(DocOrder)
    /\ DocOrder[execution_count + 1] = cell

RunAllNext ==
    \/ InOrder("Libraries") /\ Libraries
    \/ InOrder("Viz options") /\ VizOptions
    \/ InOrder("Data simulation") /\ DataSimulation
    \/ InOrder("Micro firms") /\ MicroFirms
    \/ InOrder("Small firms") /\ SmallFirms
    \/ InOrder("Medium firms") /\ MediumFirms
    \/ InOrder("Large firms") /\ LargeFirms
    \/ InOrder("Very large firms") /\ VeryLargeFirms
    \/ InOrder("Data preparation") /\ DataPreparation

SpecRunAll == Init /\ [][RunAllNext]_vars

(***************************************************************************)
(* SpecDraw: the firm-size draw of each cohort cell on its own, one        *)
(* element of the returned array at a time, over the whole support.        *)
(***************************************************************************)
FirmSizeDraw(cell) ==
    /\ \E v \in randint(CellArgs[cell].low, CellArgs[cell].high) :
           draw' = [cell |-> cell, value |-> v]
    /\ UNCHANGED <<ns, execution_count, out, rng_calls>>

DrawNext == \E cell \in CohortCells : FirmSizeDraw(cell)

SpecDraw == Init /\ [][DrawNext]_vars

(***************************************************************************)
(* SpecAssemble: the concatenation cell on its own.  The kernel has run    *)
(* the import and parameter cells, and the five cohort variables are bound *)
(* to tables of any length up to MaxRows, each with or without a firm_size *)
(* column.                                                                 *)
(***************************************************************************)
\* the cohort cell that binds a table variable
OwnerCell(t) == CHOOSE cell \in CohortCells : CellArgs[cell].frame = t

\* the table variable t as its own cell builds it, with n rows
CohortTable(t, n, with_firm_size) ==
    LET a == CellArgs[OwnerCell(t)]
        sampled == DataFrame(multivariate_normal(repeat(0, 4), CovMatrix(a.rho), n),
                             <<"job_sat", "int_qui", "age", "org_tnr">>)
        labelled == loc_set(sampled, "cohort", Broadcast(Str(a.cohort), n))
    IN  IF with_firm_size
        THEN loc_set(labelled, "firm_size", [i \in 1..n |-> Num(a.low + i - 1)])
        ELSE labelled

PreparedNs ==
    [m \in Modules |-> "module"] @@
    ("num_samples" :> NumSamples) @@
    ("mu" :> repeat(0, 4)) @@
    ("names" :> <<"job_sat", "int_qui", "age", "org_tnr">>) @@
    ("r" :> CovMatrix(-15))

AssembleInit ==
    /\ \E shape \in [Range(TableNames) -> (0..MaxRows) \X BOOLEAN] :
           ns = PreparedNs @@
                [t \in Range(TableNames) |-> CohortTable(t, shape[t][1], shape[t][2])]
    /\ execution_count = 0
    /\ out = [cell |-> "none", status |-> "ok"]
    /\ rng_calls = 0
    /\ draw = NoDraw

AssembleNext ==
    /\ "df" \notin DOMAIN ns
    /\ DataPreparation

SpecAssemble == AssembleInit /\ [][AssembleNext]_vars

(***************************************************************************)
(* What the properties below speak about.                                  *)
(***************************************************************************)
\* the cohorts as the notebook's text lists them: label and range of
\* employees, both ends included
Documented ==
    ("Micro firms"  :> [label |-> "micro",  from |-> 1,   to |-> 5]) @@
    ("Small firms"  :> [label |-> "small",  from |-> 6,   to |-> 25]) @@
    ("Medium firms" :> [label |-> "medium", from |-> 26,  to |-> 100]) @@
    ("Large firms"  :> [label |-> "large",  from |-> 100, to |-> 500])

\* the label of each cohort
CohortLabel ==
    ("Micro firms" :> "micro") @@ ("Small firms" :> "small") @@
    ("Medium firms" :> "medium") @@ ("Large firms" :> "large") @@
    ("Very large firms" :> "very large")

\* the declared firm-size bounds of each cohort, firmSizeMax exclusive
FirmSizeBounds ==
    ("Micro firms"      :> [firmSizeMin |-> 1,   firmSizeMax |-> 5]) @@
    ("Small firms"      :> [firmSizeMin |-> 6,   firmSizeMax |-> 25]) @@
    ("Medium firms"     :> [firmSizeMin |-> 26,  firmSizeMax |-> 100]) @@
    ("Large firms"      :> [firmSizeMin |-> 101, firmSizeMax |-> 500]) @@
    ("Very large firms" :> [firmSizeMin |-> 501, firmSizeMax |-> 2000])

Tables == Range(TableNames)

Assembled == "df" \in DOMAIN ns

\* the concatenation cell was the last to run
AssemblyRan == out.cell = "Data preparation"

\* rows in the first j tables of the list
RECURSIVE RowsUpTo(_)
RowsUpTo(j) == IF j = 0 THEN 0 ELSE RowsUpTo(j - 1) + Len(ns[TableNames[j]].data)

\* some table has a set of columns another has not
ColumnsDiffer ==
    \E s, t \in Tables :
        /\ s \in DOMAIN ns
        /\ t \in DOMAIN ns
        /\ Range(ns[s].columns) # Range(ns[t].columns)

\* the step bound or changed the table variable t
TableChanged(t) ==
    /\ t \in DOMAIN ns'
    /\ t \notin DOMAIN ns \/ ns'[t] # ns[t]

InBounds(value, cell) ==
    /\ value # NaN
    /\ value[2] >= FirmSizeBounds[cell].firmSizeMin
    /\ value[2] < FirmSizeBounds[cell].firmSizeMax

(***************************************************************************)
(* C1: once the five cohort cells and the concatenation cell have run,     *)
(* every row of df has a firm_size that is not missing and that lies       *)
(* within the bounds of the cohort the row is labelled with.               *)
(***************************************************************************)
C1_EveryRowHasFirmSize ==
    (AssemblyRan /\ Assembled) =>
        \A p \in 1..Len(ns["df"].data) :
            LET row == ns["df"].data[p]
            IN  /\ "firm_size" \in DOMAIN row
                /\ row["firm_size"] # NaN
                /\ \E cell \in CohortCells :
                       /\ row["cohort"] = Str(CohortLabel[cell])
                       /\ InBounds(row["firm_size"], cell)

(***************************************************************************)
(* C2: every value a cohort's firm-size draw returns is at least the       *)
(* cohort's firmSizeMin and less than its firmSizeMax.                     *)
(***************************************************************************)
C2_DrawWithinBounds ==
    \A cell \in CohortCells :
        draw.cell = cell =>
            /\ draw.value >= FirmSizeBounds[cell].firmSizeMin
            /\ draw.value < FirmSizeBounds[cell].firmSizeMax

\* a cohort's draw returned the greatest value of its support
C2_Witness ==
    /\ draw.cell = "Very large firms"
    /\ draw.value = CellArgs["Very large firms"].high - 1

(***************************************************************************)
(* C3: df has as many rows, and as many index labels, as the five tables   *)
(* handed to the concatenation have together, whatever their lengths.      *)
(***************************************************************************)
C3_LengthIsSum ==
    Assembled =>
        /\ Len(ns["df"].data) = RowsUpTo(Len(TableNames))
        /\ Len(ns["df"].index) = RowsUpTo(Len(TableNames))

\* assembled from tables of different lengths, one of them empty, and two
\* of them sharing index labels
C3_Witness ==
    /\ Assembled
    /\ Len(ns["df_1_5"].data) = 0
    /\ Len(ns["df_6_25"].data) = 1
    /\ Len(ns["df_26_100"].data) = 2
    /\ Len(ns["df"].data) > 3

\* assembled from five empty tables
C3_EmptyWitness ==
    /\ Assembled
    /\ RowsUpTo(Len(TableNames)) = 0
    /\ ns["df"].data = <<>>

(***************************************************************************)
(* C4: the rows of df are the rows of the tables in the order the tables   *)
(* are listed, and within a table in the table's own order: row i of       *)
(* the j-th table is row (rows of the tables before it) + i of df, with    *)
(* its index label and its values.                                         *)
(***************************************************************************)
C4_OrderPreserved ==
    Assembled =>
        \A j \in 1..Len(TableNames) :
            LET table == ns[TableNames[j]]
            IN  \A i \in 1..Len(table.data) :
                    LET p == RowsUpTo(j - 1) + i
                    IN  /\ p <= Len(ns["df"].data)
                        /\ ns["df"].index[p] = table.index[i]
                        /\ \A c \in DOMAIN table.data[i] :
                               ns["df"].data[p][c] = table.data[i][c]

\* assembled from at least two tables of two rows or more, after a shorter one
C4_Witness ==
    /\ Assembled
    /\ Len(ns["df_1_5"].data) = 1
    /\ Len(ns["df_6_25"].data) >= 2
    /\ Len(ns["df_501_"].data) >= 2
    /\ "firm_size" \in Range(ns["df_6_25"].columns)
    /\ ns["df"].index[2] = 0
    /\ ns["df"].data[3]["firm_size"] = ns["df_6_25"].data[2]["firm_size"]

C6_OnlyOwnTable ==
    [][\A t \in Tables : TableChanged(t) => out'.cell = OwnerCell(t)]_vars

(***************************************************************************)
(* C7: every row of a cohort's table carries the label of that cohort, and *)
(* in df the rows with one label have firm sizes in one cohort's bounds.   *)
(***************************************************************************)
C7_OwnLabel ==
    /\ \A cell \in CohortCells :
           LET t == CellArgs[cell].frame
           IN  (t \in DOMAIN ns /\ "cohort" \in Range(ns[t].columns)) =>
                   \A i \in 1..Len(ns[t].data) :
                       ns[t].data[i]["cohort"] = Str(CohortLabel[cell])
    /\ (AssemblyRan /\ Assembled) =>
           \A p, q \in 1..Len(ns["df"].data) :
               LET a == ns["df"].data[p]
                   b == ns["df"].data[q]
               IN  (a["cohort"] = b["cohort"] /\ a["firm_size"] # NaN /\ b["firm_size"] # NaN) =>
                       \E cell \in CohortCells :
                           InBounds(a["firm_size"], cell) /\ InBounds(b["firm_size"], cell)

(***************************************************************************)
(* C8: no cell calls on numpy's global random generator: its state is the  *)
(* same after every step.                                                  *)
(***************************************************************************)
C8_NoGlobalGenerator == [][rng_calls' = rng_calls]_vars

(***************************************************************************)
(* C9: for the micro, small, medium and large cohorts, the values the      *)
(* firm-size draw can return are the integers of the documented range,     *)
(* both ends included, and no others.                                      *)
(***************************************************************************)
C9_DocumentedRange ==
    \A cell \in DOMAIN Documented :
        draw.cell = cell =>
            /\ draw.value \in Documented[cell].from..Documented[cell].to
            /\ \A v \in Documented[cell].from..Documented[cell].to :
                   v \in randint(CellArgs[cell].low, CellArgs[cell].high)

(***************************************************************************)
(* C10: in a run of every cell once in document order, no cell ends in a   *)
(* NameError, and when the concatenation cell has run the five cohort      *)
(* tables are bound.                                                       *)
(***************************************************************************)
C10_NoNameError ==
    /\ out.status # "NameError"
    /\ AssemblyRan => \A t \in Tables : t \in DOMAIN ns

====
